---- MODULE Spec2Model ----
(***************************************************************************)
(* A model of the basic-cli shell: the parser (src/src/parser.py), the     *)
(* built-in commands and the registry (src/src/commands.py) and the        *)
(* executor (src/src/executor.py).                                         *)
(*                                                                         *)
(* Text is a sequence of one-character strings, so that substitution,      *)
(* splitting, tokenizing and counting are computed character by character  *)
(* as the Python code computes them.  Optional[str] is a sequence of       *)
(* length 0 (None) or 1 (the string).                                      *)
(***************************************************************************)
EXTENDS Integers, Sequences, FiniteSets, TLC

VARIABLES
    line,             \* the line typed, handed to Parser.parse
    env,              \* os.environ
    substituted,      \* parse's input after _process_substitutions
    parsed,           \* what parse gave: a ParsedInput or the exception
    commands,         \* ParsedInput.commands, as handed to Executor.execute
    pc,               \* where the run is
    idx,              \* the stage the for loop of execute is at
    exit_code,        \* execute's exit_code
    previous_output,  \* execute's previous_output
    stdout,           \* what was printed to sys.stdout, one entry per print
    history,          \* the stages executed so far: stdin given, result got
    raised,           \* the exception that ended the run, or "none"
    ret,              \* the value execute returned: <<>> until it returns
    fs,               \* the files, the real stdin and the cwd
    call,             \* a command and a stdin, for one call of a behaviour
    res               \* what that call gave

vars == <<line, env, substituted, parsed, commands, pc, idx, exit_code,
          previous_output, stdout, history, raised, ret, fs, call, res>>

parseVars == <<line, env, substituted, parsed>>

callVars == <<call, res>>

----------------------------------------------------------------------------
(* Optional[str] *)

None == <<>>

Some(s) == <<s>>

IsNone(o) == o = <<>>

Val(o) == o[1]

----------------------------------------------------------------------------
(* Characters and Python's str helpers *)

\* str.isspace() / shlex whitespace, on the characters of the model
IsSpace(c) == c \in {" ", "\n", "\t"}

\* the regular expression class \w, on the characters of the model
IsWordChar(c) ==
    c \in {"a", "b", "c", "d", "e", "f", "g", "h", "i", "j", "k", "l", "m",
           "n", "o", "p", "q", "r", "s", "t", "u", "v", "w", "x", "y", "z",
           "A", "B", "C", "D", "E", "F", "G", "H", "I", "J", "K", "L", "M",
           "N", "O", "P", "Q", "R", "S", "T", "U", "V", "W", "X", "Y", "Z",
           "0", "1", "2", "3", "4", "5", "6", "7", "8", "9", "_"}

\* str.lower() of one character, for the letters the model's texts use
Lower(c) ==
    CASE c = "M" -> "m" [] c = "X" -> "x" [] c = "A" -> "a" [] c = "B" -> "b"
      [] c = "C" -> "c" [] OTHER -> c

DigitChars == <<"0", "1", "2", "3", "4", "5", "6", "7", "8", "9">>

RECURSIVE Concat(_)
\* ''.join(parts)
Concat(parts) ==
    IF parts = <<>> THEN <<>> ELSE Head(parts) \o Concat(Tail(parts))

RECURSIVE JoinWith(_, _)
\* sep.join(parts)
JoinWith(parts, sep) ==
    IF parts = <<>> THEN <<>>
    ELSE IF Len(parts) = 1 THEN parts[1]
    ELSE parts[1] \o sep \o JoinWith(Tail(parts), sep)

RECURSIVE LStrip(_)
LStrip(s) ==
    IF s # <<>> /\ IsSpace(Head(s)) THEN LStrip(Tail(s)) ELSE s

RECURSIVE RStrip(_)
RStrip(s) ==
    IF s # <<>> /\ IsSpace(s[Len(s)]) THEN RStrip(SubSeq(s, 1, Len(s) - 1)) ELSE s

\* str.strip()
Strip(s) == RStrip(LStrip(s))

RECURSIVE SplitChar(_, _, _)
\* str.split(sep) for a one-character sep: n separators give n + 1 segments;
\* cur is the segment being collected
SplitChar(s, sep, cur) ==
    IF s = <<>> THEN <<cur>>
    ELSE IF Head(s) = sep THEN <<cur>> \o SplitChar(Tail(s), sep, <<>>)
    ELSE SplitChar(Tail(s), sep, Append(cur, Head(s)))

\* the length of the longest run of \w characters of s starting at index i
RECURSIVE WordRun(_, _)
WordRun(s, i) ==
    IF i <= Len(s) /\ IsWordChar(s[i]) THEN 1 + WordRun(s, i + 1) ELSE 0

----------------------------------------------------------------------------
(* Parser._process_substitutions *)

\* os.getenv(var_name, '')
GetEnv(e, name) == IF name \in DOMAIN e THEN e[name] ELSE <<>>

RECURSIVE SubBraced(_, _, _)
\* re.sub(r'\$\{(\w+)\}', replace_var, input): one left-to-right pass, the
\* replacement text is not scanned again by this pass
SubBraced(s, i, e) ==
    IF i > Len(s) THEN <<>>
    ELSE LET n == WordRun(s, i + 2)
         IN IF /\ s[i] = "$"
               /\ i + 1 <= Len(s) /\ s[i + 1] = "{"
               /\ n > 0
               /\ i + 2 + n <= Len(s) /\ s[i + 2 + n] = "}"
            THEN GetEnv(e, SubSeq(s, i + 2, i + 1 + n)) \o SubBraced(s, i + 3 + n, e)
            ELSE <<s[i]>> \o SubBraced(s, i + 1, e)

RECURSIVE SubPlain(_, _, _)
\* re.sub(r'\$(\w+)', replace_var, input)
SubPlain(s, i, e) ==
    IF i > Len(s) THEN <<>>
    ELSE LET n == WordRun(s, i + 1)
         IN IF s[i] = "$" /\ n > 0
            THEN GetEnv(e, SubSeq(s, i + 1, i + n)) \o SubPlain(s, i + 1 + n, e)
            ELSE <<s[i]>> \o SubPlain(s, i + 1, e)

\* the two passes, the second over the result of the first
ProcessSubstitutions(s, e) == SubPlain(SubBraced(s, 1, e), 1, e)

----------------------------------------------------------------------------
(* shlex.split(input): posix mode, whitespace_split, no comments *)

RECURSIVE ShlexRead(_, _, _, _, _, _, _)
\* st is shlex's state: "ws" (' ', between tokens), "word" ('a'), a quote
\* character, or "esc" (the escape character, returning to state back);
\* token is the token being built and quoted says whether it saw a quote
ShlexRead(s, i, st, back, token, quoted, out) ==
    IF i > Len(s) THEN
        IF st \in {"'", "\"", "esc"} THEN [err |-> "ValueError", tokens |-> <<>>]
        ELSE [err |-> "none",
              tokens |-> IF token # <<>> \/ quoted THEN Append(out, token) ELSE out]
    ELSE LET c == s[i] IN
        CASE st = "ws" ->
                IF IsSpace(c) THEN ShlexRead(s, i + 1, "ws", back, <<>>, FALSE, out)
                ELSE IF c = "\\" THEN ShlexRead(s, i + 1, "esc", "word", <<>>, FALSE, out)
                ELSE IF c \in {"'", "\""} THEN ShlexRead(s, i + 1, c, back, <<>>, TRUE, out)
                ELSE ShlexRead(s, i + 1, "word", back, <<c>>, FALSE, out)
          [] st = "word" ->
                IF IsSpace(c) THEN
                    IF token # <<>> \/ quoted
                    THEN ShlexRead(s, i + 1, "ws", back, <<>>, FALSE, Append(out, token))
                    ELSE ShlexRead(s, i + 1, "ws", back, <<>>, FALSE, out)
                ELSE IF c \in {"'", "\""} THEN ShlexRead(s, i + 1, c, back, token, TRUE, out)
                ELSE IF c = "\\" THEN ShlexRead(s, i + 1, "esc", "word", token, quoted, out)
                ELSE ShlexRead(s, i + 1, "word", back, Append(token, c), quoted, out)
          [] st \in {"'", "\""} ->
                IF c = st THEN ShlexRead(s, i + 1, "word", back, token, TRUE, out)
                ELSE IF c = "\\" /\ st = "\""
                     THEN ShlexRead(s, i + 1, "esc", st, token, TRUE, out)
                ELSE ShlexRead(s, i + 1, st, back, Append(token, c), TRUE, out)
          [] OTHER ->   \* st = "esc"
                IF back = "\"" /\ c # "\\" /\ c # "\""
                THEN ShlexRead(s, i + 1, back, back, token \o <<"\\", c>>, quoted, out)
                ELSE ShlexRead(s, i + 1, back, back, Append(token, c), quoted, out)

\* shlex.split(input): the tokens, or ValueError (no closing quotation, no
\* escaped character)
ShlexSplit(s) == ShlexRead(s, 1, "ws", "word", <<>>, FALSE, <<>>)

----------------------------------------------------------------------------
(* Parser._parse_command and Parser.parse *)

ParsedCommand(name, args) == [command_name |-> name, args |-> args]

\* _parse_command: the command, ParseError for no token, or shlex's ValueError
ParseCommand(s) ==
    LET t == ShlexSplit(s)
    IN IF t.err # "none" THEN [outcome |-> t.err, commands |-> <<>>]
       ELSE IF Len(t.tokens) = 0 THEN [outcome |-> "ParseError", commands |-> <<>>]
       ELSE [outcome |-> "ok",
             commands |-> <<ParsedCommand(Head(t.tokens), Tail(t.tokens))>>]

\* KeepSegment without the `if cmd_str:` test
KeepEverySegment(seg) == TRUE

\* the segments parse skips: empty after strip()
KeepSegment(seg) == Strip(seg) # <<>>

RECURSIVE ParseSegments(_, _)
\* the loop of parse over input.split('|'); the first exception ends it
ParseSegments(segs, acc) ==
    IF segs = <<>> THEN [outcome |-> "ok", commands |-> acc]
    ELSE IF ~KeepSegment(Head(segs)) THEN ParseSegments(Tail(segs), acc)
    ELSE LET r == ParseCommand(Strip(Head(segs)))
         IN IF r.outcome # "ok" THEN r
            ELSE ParseSegments(Tail(segs), acc \o r.commands)

\* Parser.parse(input) in environment e
Parse(s, e) ==
    IF Strip(s) = <<>> THEN [outcome |-> "ParseError", commands |-> <<>>]
    ELSE ParseSegments(SplitChar(ProcessSubstitutions(s, e), "|", <<>>), <<>>)

----------------------------------------------------------------------------
(* The world the commands read: files, the process's real stdin, the cwd *)

\* open(path, 'r').read(): the text, or the OSError open raises
OpenRead(w, path) ==
    IF path \notin DOMAIN w.files THEN [err |-> "FileNotFoundError", content |-> <<>>]
    ELSE IF w.files[path].kind = "file" THEN [err |-> "none", content |-> w.files[path].content]
    ELSE IF w.files[path].kind = "dir" THEN [err |-> "IsADirectoryError", content |-> <<>>]
    ELSE [err |-> "PermissionError", content |-> <<>>]

\* the bytes one character takes in UTF-8; "U" stands for a two-byte character
ByteLen(c) == IF c = "U" THEN 2 ELSE 1

RECURSIVE Utf8Len(_)
\* len(content.encode('utf-8'))
Utf8Len(s) == IF s = <<>> THEN 0 ELSE ByteLen(Head(s)) + Utf8Len(Tail(s))

\* what execute gives back: a returned (exit_code, output), or an exception
\* that leaves execute; reads_stdin records a read of the real sys.stdin
Result(code, out, reads) ==
    [raised |-> "none", exit_code |-> code, output |-> out, reads_stdin |-> reads]

Raise(exc) ==
    [raised |-> exc, exit_code |-> 0, output |-> None, reads_stdin |-> FALSE]

----------------------------------------------------------------------------
(* CatCommand, EchoCommand, WcCommand, PwdCommand, ExitCommand *)

RECURSIVE ReadAll(_, _)
\* the loop over command.args of cat: the first open that fails ends it
ReadAll(paths, w) ==
    IF paths = <<>> THEN [err |-> "none", content |-> <<>>]
    ELSE LET r == OpenRead(w, Head(paths))
             rest == ReadAll(Tail(paths), w)
         IN IF r.err # "none" THEN r
            ELSE IF rest.err # "none" THEN rest
            ELSE [err |-> "none", content |-> r.content \o rest.content]

CatExecute(command, stdin, w) ==
    IF command.args = <<>> /\ ~IsNone(stdin) THEN Result(0, stdin, FALSE)
    ELSE IF command.args = <<>> THEN Result(0, Some(w.stdin), TRUE)
    ELSE LET r == ReadAll(command.args, w)
         IN IF r.err # "none" THEN Result(1, None, FALSE)
            ELSE Result(0, Some(r.content), FALSE)

\* EchoExecute joining the arguments with nothing between them
EchoJoinsWithoutSpace(command, stdin) ==
    LET output == Concat(command.args)
    IN Result(0, Some(IF ~IsNone(stdin) THEN Val(stdin) \o output ELSE output), FALSE)

EchoExecute(command, stdin) ==
    LET output == JoinWith(command.args, <<" ">>)
    IN Result(0, Some(IF ~IsNone(stdin) THEN Val(stdin) \o output ELSE output), FALSE)

RECURSIVE CountWords(_, _)
\* len(content.split()): the maximal runs of non-whitespace; inWord says
\* whether the previous character was part of a run
CountWords(s, inWord) ==
    IF s = <<>> THEN 0
    ELSE IF IsSpace(Head(s)) THEN CountWords(Tail(s), FALSE)
    ELSE (IF inWord THEN 0 ELSE 1) + CountWords(Tail(s), TRUE)

\* CountLines counting the newline characters
CountNewlines(s) == Cardinality({k \in 1..Len(s) : s[k] = "\n"})

\* len(content.split('\n'))
CountLines(s) == Len(SplitChar(s, "\n", <<>>))

RECURSIVE IntToStr(_)
\* str(n) for n >= 0
IntToStr(n) ==
    IF n < 10 THEN <<DigitChars[n + 1]>>
    ELSE IntToStr(n \div 10) \o <<DigitChars[(n % 10) + 1]>>

\* f"{lines} {words} {bytes}"
WcFormat(content, bytes) ==
    IntToStr(CountLines(content)) \o <<" ">> \o IntToStr(CountWords(content, FALSE))
        \o <<" ">> \o IntToStr(bytes)

WcExecute(command, stdin, w) ==
    IF command.args # <<>> THEN
        LET r == OpenRead(w, command.args[1])
        IN IF r.err # "none" THEN Result(1, None, FALSE)
           ELSE Result(0, Some(WcFormat(r.content, Utf8Len(r.content))), FALSE)
    ELSE IF ~IsNone(stdin) THEN
        Result(0, Some(WcFormat(Val(stdin), Utf8Len(Val(stdin)))), FALSE)
    ELSE Result(0, Some(WcFormat(w.stdin, Utf8Len(w.stdin))), TRUE)

PwdExecute(w) == Result(0, Some(w.cwd), FALSE)

\* ExitExecute reporting an ordinary failure instead of raising
ExitReturnsFailure == Result(1, None, FALSE)

ExitExecute == Raise("ExitCommandException")

----------------------------------------------------------------------------
(* GrepCommand *)

OptWord == {<<"-", "w">>, <<"-", "-", "w", "o", "r", "d">>}

OptIgnoreCase ==
    {<<"-", "i">>, <<"-", "-", "i", "g", "n", "o", "r", "e", "-", "c", "a", "s", "e">>}

OptAfterContext ==
    {<<"-", "A">>,
     <<"-", "-", "a", "f", "t", "e", "r", "-", "c", "o", "n", "t", "e", "x", "t">>}

IsDigit(c) == \E k \in 1..10 : DigitChars[k] = c

DigitVal(c) == (CHOOSE k \in 1..10 : DigitChars[k] = c) - 1

RECURSIVE DigitsVal(_, _)
\* the value of a run of digits, underscores skipped; acc is the value so far
DigitsVal(s, acc) ==
    IF s = <<>> THEN acc
    ELSE IF Head(s) = "_" THEN DigitsVal(Tail(s), acc)
    ELSE DigitsVal(Tail(s), 10 * acc + DigitVal(Head(s)))

\* int(text), argparse's type=int: surrounding whitespace, a sign, digits with
\* single underscores between them; anything else is a ValueError
ParseInt(text) ==
    LET t == Strip(text)
        signed == t # <<>> /\ Head(t) \in {"-", "+"}
        d == IF signed THEN Tail(t) ELSE t
        ok == /\ d # <<>>
              /\ IsDigit(d[1]) /\ IsDigit(d[Len(d)])
              /\ \A k \in 1..Len(d) : IsDigit(d[k]) \/ d[k] = "_"
              /\ \A k \in 1..(Len(d) - 1) : ~(d[k] = "_" /\ d[k + 1] = "_")
    IN IF ~ok THEN [ok |-> FALSE, val |-> 0]
       ELSE [ok |-> TRUE,
             val |-> IF signed /\ Head(t) = "-" THEN 0 - DigitsVal(d, 0) ELSE DigitsVal(d, 0)]

\* argparse's negative-number test '^-\d+$' (no option of grep looks like one)
LooksNegative(t) ==
    Len(t) >= 2 /\ t[1] = "-" /\ \A k \in 2..Len(t) : IsDigit(t[k])

\* argparse's _parse_optional, for the argument forms of the model: an argument
\* is an option string ("O") or a positional ("A").  Abbreviated long options,
\* joined short options (-wi, -A2), --opt=value and the "--" separator are not
\* among the model's arguments.
IsOptionLike(t) ==
    /\ Len(t) >= 2 /\ t[1] = "-"
    /\ \/ t \in OptWord \cup OptIgnoreCase \cup OptAfterContext
       \/ ~LooksNegative(t) /\ \A k \in 1..Len(t) : t[k] # " "

\* the number of consecutive positionals of args from index i
RECURSIVE PositionalRun(_, _)
PositionalRun(args, i) ==
    IF i <= Len(args) /\ ~IsOptionLike(args[i]) THEN 1 + PositionalRun(args, i + 1) ELSE 0

Namespace(w, ic, n, pat, file) ==
    [err |-> "none", word |-> w, ignore_case |-> ic, after_context |-> n,
     pattern |-> pat, file |-> file]

\* parser.error(): argparse prints the usage and calls sys.exit(2); the
\* ArgumentError that _parse_args catches never leaves parse_args
ArgparseExit == [err |-> "SystemExit", word |-> FALSE, ignore_case |-> FALSE,
                 after_context |-> 0, pattern |-> <<>>, file |-> None]

RECURSIVE ArgparseScan(_, _, _, _)
\* parse_args over args from index i; ns is the namespace so far and seen says
\* whether the positionals (pattern, file) were consumed: argparse consumes
\* them from ONE run of positionals, a later run is "unrecognized arguments"
ArgparseScan(args, i, ns, seen) ==
    IF i > Len(args) THEN (IF seen THEN ns ELSE ArgparseExit)
    ELSE LET t == args[i] IN
        IF ~IsOptionLike(t) THEN
            LET k == PositionalRun(args, i)
            IN IF seen \/ k > 2 THEN ArgparseExit
               ELSE ArgparseScan(args, i + k,
                        [ns EXCEPT !.pattern = t,
                                   !.file = IF k = 2 THEN Some(args[i + 1]) ELSE None],
                        TRUE)
        ELSE IF t \in OptWord THEN ArgparseScan(args, i + 1, [ns EXCEPT !.word = TRUE], seen)
        ELSE IF t \in OptIgnoreCase
             THEN ArgparseScan(args, i + 1, [ns EXCEPT !.ignore_case = TRUE], seen)
        ELSE IF t \in OptAfterContext THEN
            IF i + 1 > Len(args) \/ IsOptionLike(args[i + 1]) THEN ArgparseExit
            ELSE LET v == ParseInt(args[i + 1])
                 IN IF ~v.ok THEN ArgparseExit
                    ELSE ArgparseScan(args, i + 2, [ns EXCEPT !.after_context = v.val], seen)
        ELSE ArgparseExit

\* GrepCommand._parse_args
GrepParseArgs(args) == ArgparseScan(args, 1, Namespace(FALSE, FALSE, 0, <<>>, None), FALSE)

\* re.compile(regex) succeeds: the model's patterns are letters, digits, spaces
\* and "(", which alone among them is special (an unterminated group)
RegexCompiles(regex) == \A k \in 1..Len(regex) : regex[k] # "("

\* _build_pattern: the compiled pattern, or re.error
GrepBuildPattern(pattern, whole_word, ignore_case) ==
    IF ~whole_word /\ ~RegexCompiles(pattern)
    THEN [err |-> "re.error", text |-> pattern, word |-> whole_word, ic |-> ignore_case]
    ELSE [err |-> "none", text |-> pattern, word |-> whole_word, ic |-> ignore_case]

\* whether position j of text (1-based) holds a \w character
WordAt(text, j) == j >= 1 /\ j <= Len(text) /\ IsWordChar(text[j])

\* pattern.search(line): the literal text at some offset k, letters compared
\* folded under IGNORECASE, with \b on both sides for a whole-word pattern
GrepSearch(p, text) ==
    \E k \in 0..(Len(text) - Len(p.text)) :
        /\ \A j \in 1..Len(p.text) :
              IF p.ic THEN Lower(text[k + j]) = Lower(p.text[j])
              ELSE text[k + j] = p.text[j]
        /\ p.word => /\ WordAt(text, k) # WordAt(text, k + 1)
                     /\ WordAt(text, k + Len(p.text)) # WordAt(text, k + Len(p.text) + 1)

RECURSIVE SplitLinesFrom(_, _)
\* str.splitlines(): the lines without their "\n"; no empty last line
SplitLinesFrom(s, cur) ==
    IF s = <<>> THEN (IF cur = <<>> THEN <<>> ELSE <<cur>>)
    ELSE IF Head(s) = "\n" THEN <<cur>> \o SplitLinesFrom(Tail(s), <<>>)
    ELSE SplitLinesFrom(Tail(s), Append(cur, Head(s)))

SplitLines(s) == SplitLinesFrom(s, <<>>)

\* _read_input: the lines, the OSError of open, and whether sys.stdin was read
GrepReadInput(args, stdin, w) ==
    IF ~IsNone(args.file) /\ Val(args.file) # <<>> THEN
        LET r == OpenRead(w, Val(args.file))
        IN [err |-> r.err, lines |-> SplitLines(r.content), reads_stdin |-> FALSE]
    ELSE IF ~IsNone(stdin) /\ Val(stdin) # <<>> THEN
        [err |-> "none", lines |-> SplitLines(Val(stdin)), reads_stdin |-> FALSE]
    ELSE [err |-> "none", lines |-> SplitLines(w.stdin), reads_stdin |-> TRUE]

\* ContextAfterMatch adding to the counter instead of resetting it
ContextExtended(remaining_context, after_context) == remaining_context + after_context

\* the context counter after a matching line
ContextAfterMatch(remaining_context, after_context) == after_context

RECURSIVE GrepScan(_, _, _, _, _)
\* the loop of _process_lines from line i: the indexes of the lines appended
\* to result, in the order they are appended
GrepScan(lines, i, p, after_context, remaining_context) ==
    IF i > Len(lines) THEN <<>>
    ELSE IF GrepSearch(p, lines[i]) THEN
        <<i>> \o GrepScan(lines, i + 1, p, after_context,
                          ContextAfterMatch(remaining_context, after_context))
    ELSE IF remaining_context > 0 THEN
        <<i>> \o GrepScan(lines, i + 1, p, after_context, remaining_context - 1)
    ELSE GrepScan(lines, i + 1, p, after_context, remaining_context)

\* the positions _process_lines emits
GrepEmitted(lines, p, after_context) == GrepScan(lines, 1, p, after_context, 0)

\* _process_lines: result
GrepProcessLines(lines, p, after_context) ==
    LET e == GrepEmitted(lines, p, after_context)
    IN [k \in 1..Len(e) |-> lines[e[k]]]

\* '\n'.join(result) if result else None
GrepOutput(result) == IF result # <<>> THEN Some(JoinWith(result, <<"\n">>)) ELSE None

GrepExecute(command, stdin, w) ==
    LET args == GrepParseArgs(command.args) IN
    IF args.err # "none" THEN Raise(args.err)
    ELSE LET pattern == GrepBuildPattern(args.pattern, args.word, args.ignore_case) IN
    IF pattern.err # "none" THEN Raise(pattern.err)
    ELSE LET in == GrepReadInput(args, stdin, w) IN
    IF in.err # "none" THEN Raise(in.err)
    ELSE Result(0, GrepOutput(GrepProcessLines(in.lines, pattern, args.after_context)),
                in.reads_stdin)

----------------------------------------------------------------------------
(* DefaultCommand: the external-process fallback *)

RECURSIVE RStripNewlines(_)
\* str.rstrip('\n')
RStripNewlines(s) ==
    IF s # <<>> /\ s[Len(s)] = "\n" THEN RStripNewlines(SubSeq(s, 1, Len(s) - 1)) ELSE s

\* what subprocess.run may do with a program the model does not know: run it to
\* a return code and an output, or fail to launch it
ExtOutcomes ==
    {[kind |-> "ran", returncode |-> 0, stdout |-> <<"m", "\n">>],
     [kind |-> "ran", returncode |-> 0, stdout |-> <<>>],
     [kind |-> "ran", returncode |-> 2, stdout |-> <<"x">>],
     [kind |-> "FileNotFoundError", returncode |-> 0, stdout |-> <<>>],
     [kind |-> "PermissionError", returncode |-> 0, stdout |-> <<>>]}

\* input=None leaves the child the shell's own stdin: reads_stdin
DefaultExecute(command, stdin, ext) ==
    LET piped == ~IsNone(stdin) /\ Val(stdin) # <<>> IN
    IF ext.kind = "FileNotFoundError" THEN Result(1, None, FALSE)
    ELSE IF ext.kind # "ran" THEN Raise(ext.kind)
    ELSE Result(ext.returncode, Some(RStripNewlines(ext.stdout)), ~piped)

----------------------------------------------------------------------------
(* CommandRegistry *)

CAT == <<"c", "a", "t">>

ECHO == <<"e", "c", "h", "o">>

WC == <<"w", "c">>

PWD == <<"p", "w", "d">>

EXIT == <<"e", "x", "i", "t">>

GREP == <<"g", "r", "e", "p">>

\* GetCommand looking the name up with its letters folded to lower case
GetCommandIgnoringCase(name) ==
    LET n == [k \in 1..Len(name) |-> Lower(name[k])] IN
    CASE n = CAT -> "CatCommand"
      [] n = ECHO -> "EchoCommand"
      [] n = WC -> "WcCommand"
      [] n = PWD -> "PwdCommand"
      [] n = EXIT -> "ExitCommand"
      [] n = GREP -> "GrepCommand"
      [] OTHER -> "DefaultCommand"

\* _commands.get(name, DefaultCommand): the class of the behaviour
GetCommand(name) ==
    CASE name = CAT -> "CatCommand"
      [] name = ECHO -> "EchoCommand"
      [] name = WC -> "WcCommand"
      [] name = PWD -> "PwdCommand"
      [] name = EXIT -> "ExitCommand"
      [] name = GREP -> "GrepCommand"
      [] OTHER -> "DefaultCommand"

\* the trailing () of get_command: a new instance of the class, whose identity
\* is that of none of the instances made so far (objs)
NewInstance(objs, cls) == [cls |-> cls, id |-> Cardinality(objs) + 1]

\* cmd_obj.execute(command=command, stdin=stdin) in world w, an external
\* program doing ext
Execute(command, stdin, w, ext) ==
    LET cls == GetCommand(command.command_name) IN
    CASE cls = "CatCommand" -> CatExecute(command, stdin, w)
      [] cls = "EchoCommand" -> EchoExecute(command, stdin)
      [] cls = "WcCommand" -> WcExecute(command, stdin, w)
      [] cls = "PwdCommand" -> PwdExecute(w)
      [] cls = "ExitCommand" -> ExitExecute
      [] cls = "GrepCommand" -> GrepExecute(command, stdin, w)
      [] OTHER -> DefaultExecute(command, stdin, ext)

\* the outcomes of the external world that matter to a command: one for a
\* built-in, which starts no process
ExtChoices(command) ==
    IF GetCommand(command.command_name) = "DefaultCommand" THEN ExtOutcomes
    ELSE {[kind |-> "ran", returncode |-> 0, stdout |-> <<>>]}

----------------------------------------------------------------------------
(* The inputs of the model *)

\* the longest pipeline handed to Executor.execute
MaxStages == 3

\* the most pieces a typed line is made of
MaxPieces == 4

\* the most tokens X has in the line `echo X | cat`
MaxTokens == 3

\* the most lines of a text piped to grep
MaxLines == 5

\* the largest after-context given to grep
MaxContext == 2

\* the longest text piped to wc
MaxText == 3

\* all sequences over S of length 0..n
SeqsUpTo(S, n) == UNION {[1..k -> S] : k \in 0..n}

FileF == <<"f">>

FileD == <<"d">>

FileN == <<"n">>

\* the world: f is a readable file, d a directory, n (and the rest) missing
World ==
    [files |-> (FileF :> [kind |-> "file", content |-> <<"m", " ", "x", "\n", "x", "\n">>]
                @@ FileD :> [kind |-> "dir", content |-> <<>>]),
     stdin |-> <<"x", "\n", "m", "\n">>,
     cwd |-> <<"/">>]

\* the stages of the pipelines handed to the executor
Stages ==
    {ParsedCommand(ECHO, << <<"m">> >>),
     ParsedCommand(ECHO, <<>>),
     ParsedCommand(CAT, <<>>),
     ParsedCommand(CAT, <<FileF>>),
     ParsedCommand(CAT, <<FileN>>),
     ParsedCommand(WC, <<>>),
     ParsedCommand(EXIT, <<>>),
     ParsedCommand(GREP, << <<"m">> >>),
     ParsedCommand(GREP, << <<"z">> >>),
     ParsedCommand(GREP, <<>>),
     ParsedCommand(<<"l", "s">>, <<>>),
     ParsedCommand(<<"C", "a", "t">>, <<>>)}

Pipelines == SeqsUpTo(Stages, MaxStages)

NotParsed == [outcome |-> "pending", commands |-> <<>>]

NoCall == [command |-> ParsedCommand(<<>>, <<>>), stdin |-> None]

NoResult == Result(0, None, FALSE)

----------------------------------------------------------------------------
(* Executor.execute, one loop iteration at a time *)

\* PrintOutput without the test for None: print(None) writes the text None
PrintOutputUnguarded(out, previous) ==
    Append(out, IF IsNone(previous) THEN <<"N", "o", "n", "e">> ELSE Val(previous))

\* print(previous_output) if previous_output is not None
PrintOutput(out, previous) ==
    IF ~IsNone(previous) THEN Append(out, Val(previous)) ELSE out

\* LoopContinues without the break
LoopNeverBreaks(code) == TRUE

\* whether the loop goes on after a stage returned exit_code
LoopContinues(code) == code = 0

\* NextInput keeping the old text when a stage returns None
NextInputKeepsOld(previous, output) == IF IsNone(output) THEN previous ELSE output

\* previous_output = output: what the next stage is given as stdin
NextInput(previous, output) == output

\* the instances get_command has returned in this run
Objects == {history[k].obj : k \in 1..Len(history)}

\* one iteration of the for loop: get_command, execute, previous_output = output,
\* break on a non-zero exit code; an exception leaves execute at once
ExecuteStage ==
    /\ pc = "loop"
    /\ idx <= Len(commands)
    /\ \E ext \in ExtChoices(commands[idx]) :
          LET cmd_obj == NewInstance(Objects, GetCommand(commands[idx].command_name))
              r == Execute(commands[idx], previous_output, fs, ext) IN
          /\ history' = Append(history,
                 [stage |-> idx, command |-> commands[idx], obj |-> cmd_obj,
                  stdin |-> previous_output, result |-> r])
          /\ fs' = IF r.reads_stdin THEN [fs EXCEPT !.stdin = <<>>] ELSE fs
          /\ IF r.raised # "none"
             THEN /\ pc' = "raised"
                  /\ raised' = r.raised
                  /\ UNCHANGED <<idx, exit_code, previous_output>>
             ELSE /\ exit_code' = r.exit_code
                  /\ previous_output' = NextInput(previous_output, r.output)
                  /\ idx' = idx + 1
                  /\ pc' = IF LoopContinues(r.exit_code) THEN "loop" ELSE "after_loop"
                  /\ UNCHANGED raised
    /\ UNCHANGED <<parseVars, callVars, commands, stdout, ret>>

\* after the loop, run out or broken: print the last output once and return
Finish ==
    /\ \/ pc = "after_loop"
       \/ pc = "loop" /\ idx > Len(commands)
    /\ stdout' = PrintOutput(stdout, previous_output)
    /\ ret' = <<exit_code>>
    /\ pc' = "returned"
    /\ UNCHANGED <<parseVars, callVars, commands, idx, exit_code, previous_output,
                   history, raised, fs>>

\* the state in which Executor.execute(ParsedInput(cmds)) starts
ExecStart(cmds) ==
    /\ commands = cmds
    /\ idx = 1
    /\ exit_code = 0
    /\ previous_output = None
    /\ stdout = <<>>
    /\ history = <<>>
    /\ raised = "none"
    /\ ret = <<>>
    /\ fs = World

Init ==
    /\ \E cmds \in Pipelines : ExecStart(cmds)
    /\ pc = "loop"
    /\ line = <<>>
    /\ env = <<>>
    /\ substituted = <<>>
    /\ parsed = NotParsed
    /\ call = NoCall
    /\ res = NoResult

Next == ExecuteStage \/ Finish

Spec == Init /\ [][Next]_vars

----------------------------------------------------------------------------
(* Parser.parse on a typed line: SpecParse *)

VarA == <<"a">>

VarB == <<"b">>

RefPlain == <<"$", "a">>

RefBraced == <<"$", "{", "a", "}">>

\* the pieces the typed lines are made of
ParsePieces ==
    {<<"x">>, <<" ">>, <<"|">>, <<"'">>, <<"\"">>, RefPlain, RefBraced}

ParseLines == {Concat(ps) : ps \in SeqsUpTo(ParsePieces, MaxPieces)}

\* the environments: a unset; a plain word; a value that is itself a
\* reference ($b, ${b}); a blank
Envs ==
    {<<>>,
     VarA :> <<"m">>,
     VarA :> <<"$", "b">> @@ VarB :> <<"m">>,
     VarA :> <<"$", "{", "b", "}">> @@ VarB :> <<"m">>,
     VarA :> <<" ">>}

\* the caller of parse and execute: the line is parsed, and a ParsedInput is
\* handed to the executor; an exception of parse ends the run
ParseLine ==
    /\ pc = "parse"
    /\ substituted' = ProcessSubstitutions(line, env)
    /\ parsed' = Parse(line, env)
    /\ IF parsed'.outcome = "ok"
       THEN /\ commands' = parsed'.commands
            /\ pc' = "loop"
            /\ UNCHANGED raised
       ELSE /\ raised' = parsed'.outcome
            /\ pc' = "rejected"
            /\ UNCHANGED commands
    /\ UNCHANGED <<line, env, callVars, idx, exit_code, previous_output, stdout,
                   history, ret, fs>>

InitParse ==
    /\ line \in ParseLines
    /\ env \in Envs
    /\ substituted = <<>>
    /\ parsed = NotParsed
    /\ pc = "parse"
    /\ ExecStart(<<>>)
    /\ call = NoCall
    /\ res = NoResult

NextParse == ParseLine

SpecParse == InitParse /\ [][NextParse]_vars

----------------------------------------------------------------------------
(* A typed line `echo X | cat`, parsed and executed: SpecShell *)

\* the tokens X is made of
ShellTokens ==
    {<<"x">>, <<"y", "$">>, <<"$">>, RefPlain, RefBraced, <<"\\", "\"">>,
     <<"x", "\\", "y">>}

\* X: tokens separated by single spaces
ShellTexts == {JoinWith(ts, <<" ">>) : ts \in SeqsUpTo(ShellTokens, MaxTokens)}

EchoPrefix == ECHO \o <<" ">>

CatSuffix == <<" ", "|", " ">> \o CAT

InitShell ==
    /\ \E X \in ShellTexts : line = EchoPrefix \o X \o CatSuffix
    /\ env \in {<<>>, VarA :> <<"m">>}
    /\ substituted = <<>>
    /\ parsed = NotParsed
    /\ pc = "parse"
    /\ ExecStart(<<>>)
    /\ call = NoCall
    /\ res = NoResult

NextShell == ParseLine \/ ExecuteStage \/ Finish

SpecShell == InitShell /\ [][NextShell]_vars

----------------------------------------------------------------------------
(* One call of a behaviour's execute: SpecCmd *)

\* the texts piped to grep: lines "m" and "x"
GrepTexts ==
    {JoinWith(ls, <<"\n">>) : ls \in SeqsUpTo({<<"m">>, <<"x">>}, MaxLines) \ {<<>>}}

\* "-A N" for N in -1..MaxContext, or no option
ContextOptions ==
    {<<>>} \cup {<< <<"-", "A">>, IF n < 0 THEN <<"-">> \o IntToStr(0 - n) ELSE IntToStr(n) >> :
                    n \in (0 - 1)..MaxContext}

GrepCalls ==
    {[command |-> ParsedCommand(GREP, opt \o << <<"m">> >>), stdin |-> Some(t)] :
        opt \in ContextOptions, t \in GrepTexts}

\* the texts piped to wc
WcTexts == SeqsUpTo({"a", " ", "\n", "U"}, MaxText)

\* the arguments of `echo line1 line2 line3`
EchoLineArgs ==
    << <<"l", "i", "n", "e", "1">>, <<"l", "i", "n", "e", "2">>, <<"l", "i", "n", "e", "3">> >>

\* what `echo line1 line2 line3` hands to the next stage
EchoLineOutput == EchoExecute(ParsedCommand(ECHO, EchoLineArgs), None).output

WcCalls ==
    {[command |-> ParsedCommand(WC, <<>>), stdin |-> Some(t)] : t \in WcTexts}
        \cup {[command |-> ParsedCommand(WC, <<>>), stdin |-> EchoLineOutput]}

\* calls that meet a failure: a missing file, a directory, no pattern, a bad
\* option, a bad pattern
FailingArgs ==
    {<<FileN>>, <<FileD>>, <<FileF>>, <<FileF, FileN>>, <<>>,
     << <<"m">>, FileN >>, << <<"m">>, FileF >>, << <<"(">> >>,
     << <<"-", "A">> >>, << <<"-", "A">>, <<"x">>, <<"m">> >>, << <<"-", "z">>, <<"m">> >>}

OtherCalls ==
    {[command |-> ParsedCommand(n, a), stdin |-> i] :
        n \in {CAT, WC, GREP, ECHO, PWD, EXIT, <<"l", "s">>, <<"C", "a", "t">>},
        a \in FailingArgs,
        i \in {None, Some(<<>>), Some(<<"m", "\n", "x">>)}}

Calls == GrepCalls \cup WcCalls \cup OtherCalls

\* cmd_obj.execute(command, stdin), as the tests call it
RunCommand ==
    /\ pc = "call"
    /\ \E ext \in ExtChoices(call.command) :
          res' = Execute(call.command, call.stdin, fs, ext)
    /\ fs' = IF res'.reads_stdin THEN [fs EXCEPT !.stdin = <<>>] ELSE fs
    /\ raised' = res'.raised
    /\ pc' = "called"
    /\ UNCHANGED <<parseVars, call, commands, idx, exit_code, previous_output,
                   stdout, history, ret>>

InitCmd ==
    /\ call \in Calls
    /\ res = NoResult
    /\ pc = "call"
    /\ ExecStart(<<>>)
    /\ line = <<>>
    /\ env = <<>>
    /\ substituted = <<>>
    /\ parsed = NotParsed

NextCmd == RunCommand

SpecCmd == InitCmd /\ [][NextCmd]_vars

----------------------------------------------------------------------------
(* Claims about Executor.execute, checked under Spec *)

\* execute is over: it returned, or an exception left it
Terminal == pc \in {"returned", "raised"}

\* stage k of the pipeline was executed and returned exit code 0
StageSucceeded(k) ==
    /\ k <= Len(history)
    /\ history[k].result.raised = "none"
    /\ history[k].result.exit_code = 0

\* stage k was executed and returned a non-zero exit code
StageFailed(k) ==
    /\ k <= Len(history)
    /\ history[k].result.raised = "none"
    /\ history[k].result.exit_code # 0

\* no stage left execute by an exception other than exit's termination signal
NoFault == raised \in {"none", "ExitCommandException"}

\* C1 as stated: at the end of every execution, if stage k is the first to
\* return a non-zero exit code then no later stage was executed and execute
\* returned stage k's code; if no stage returned non-zero, every stage was
\* executed and execute returned 0.  (Stated for the executions without a
\* fault, so that what refutes it is the exit built-in alone.)
C1_ShortCircuitAsStated ==
    (Terminal /\ NoFault) =>
        IF \E k \in 1..Len(history) : StageFailed(k)
        THEN LET k == CHOOSE j \in 1..Len(history) :
                          StageFailed(j) /\ \A h \in 1..(j - 1) : ~StageFailed(h)
             IN Len(history) = k /\ ret = <<history[k].result.exit_code>>
        ELSE Len(history) = Len(commands) /\ ret = <<0>>

\* C1 amended: the stages run in pipeline order, none runs after a stage that
\* returned non-zero (or raised), and when execute returns: if stage k returned
\* non-zero it is the last one executed and its code is the value returned;
\* otherwise every stage was executed and the value returned is 0.
C1_ShortCircuit ==
    /\ \A k \in 1..Len(history) : history[k].stage = k
    /\ \A k \in 1..(Len(history) - 1) : StageSucceeded(k)
    /\ pc = "returned" =>
          IF \E k \in 1..Len(history) : StageFailed(k)
          THEN ret = <<history[Len(history)].result.exit_code>>
          ELSE Len(history) = Len(commands) /\ ret = <<0>>

\* a three-stage pipeline whose middle stage failed: the third never ran
C1_Witness ==
    /\ pc = "returned"
    /\ Len(commands) = 3
    /\ Len(history) = 2
    /\ StageFailed(2)
    /\ ret = <<2>>

\* the pipeline has the form a | exit | b
ExitInTheMiddle == Len(commands) = 3 /\ commands[2].command_name = EXIT

\* C2 as stated: every execution of a pipeline a | exit | b ends with the
\* termination signal raised, b not executed and nothing printed.  (Stated for
\* the executions without a fault, so that what refutes it is a stage a that
\* returns a non-zero exit code.)
C2_ExitAsStated ==
    (ExitInTheMiddle /\ Terminal /\ NoFault) =>
        /\ pc = "raised" /\ raised = "ExitCommandException"
        /\ Len(history) <= 2
        /\ stdout = <<>>

\* C2 amended: in a pipeline a | exit | b whose stage a returned exit code 0,
\* the exit stage is the next to run, running it raises ExitCommandException
\* out of execute (execute returns no exit code), b is never executed and
\* nothing is printed.
C2_ExitMidPipeline ==
    (ExitInTheMiddle /\ StageSucceeded(1)) =>
        /\ stdout = <<>>
        /\ ret = <<>>
        /\ IF Len(history) = 1
           THEN pc = "loop" /\ idx = 2
           ELSE /\ Len(history) = 2
                /\ pc = "raised"
                /\ raised = "ExitCommandException"

\* `cat f | exit | wc`: cat's output is dropped, exit raised, wc never ran
C2_Witness ==
    /\ ExitInTheMiddle
    /\ commands[1] = ParsedCommand(CAT, <<FileF>>)
    /\ commands[3].command_name = WC
    /\ pc = "raised"
    /\ raised = "ExitCommandException"
    /\ ~IsNone(history[1].result.output)
    /\ Len(history) = 2

\* C3: execute prints at most once, only when it returns (never between
\* stages), and what it prints is the output of the last executed stage when
\* that is not None; nothing else is ever printed.
C3_PrintsLastOutputOnce ==
    /\ Len(stdout) <= 1
    /\ pc # "returned" => stdout = <<>>
    /\ pc = "returned" =>
          stdout = IF history = <<>> \/ IsNone(history[Len(history)].result.output)
                   THEN <<>>
                   ELSE <<Val(history[Len(history)].result.output)>>

\* a short-circuited pipeline: the first stage's output is not printed, the
\* failing second stage's output is
C3_Witness ==
    /\ pc = "returned"
    /\ Len(commands) = 3
    /\ Len(history) = 2
    /\ StageFailed(2)
    /\ ~IsNone(history[1].result.output)
    /\ ~IsNone(history[2].result.output)
    /\ stdout = <<Val(history[2].result.output)>>
    /\ Val(history[1].result.output) # Val(history[2].result.output)

----------------------------------------------------------------------------
(* Claims about Parser.parse, checked under SpecParse *)

RECURSIVE SubstituteOnce(_, _, _)
\* the substitution the specification describes: ONE left-to-right pass in
\* which every ${NAME} and $NAME of s is replaced by the value of NAME, the
\* inserted text being copied and never scanned
SubstituteOnce(s, i, e) ==
    IF i > Len(s) THEN <<>>
    ELSE LET nb == WordRun(s, i + 2)
             np == WordRun(s, i + 1)
         IN IF /\ s[i] = "$"
               /\ i + 1 <= Len(s) /\ s[i + 1] = "{"
               /\ nb > 0
               /\ i + 2 + nb <= Len(s) /\ s[i + 2 + nb] = "}"
            THEN GetEnv(e, SubSeq(s, i + 2, i + 1 + nb)) \o SubstituteOnce(s, i + 3 + nb, e)
            ELSE IF s[i] = "$" /\ np > 0
            THEN GetEnv(e, SubSeq(s, i + 1, i + np)) \o SubstituteOnce(s, i + 1 + np, e)
            ELSE <<s[i]>> \o SubstituteOnce(s, i + 1, e)

\* parse was called and is over
Parsed == pc # "parse" /\ parsed.outcome # "pending"

\* the line is empty or whitespace-only
Blank(s) == \A k \in 1..Len(s) : IsSpace(s[k])

\* the segments of the substituted line between the pipes
Segments == SplitChar(substituted, "|", <<>>)

\* C4: every pipeline that parse returns has at least one stage.
C4_ReturnedPipelineNonEmpty ==
    (Parsed /\ parsed.outcome = "ok") => Len(parsed.commands) >= 1

\* C5 as stated: parse fails with ParseError when the line is blank, and also
\* when some pipe segment holds no token (a leading, trailing or doubled pipe).
\* (Stated for the lines with at least one non-blank segment and no quote, so
\* that neither an all-empty pipeline nor a quoting error is what refutes it.)
C5_EmptySegmentAsStated ==
    (/\ Parsed
     /\ \A k \in 1..Len(substituted) : substituted[k] \notin {"'", "\""}
     /\ \E k \in 1..Len(Segments) : ~Blank(Segments[k])
     /\ \E k \in 1..Len(Segments) : Blank(Segments[k]))
        => parsed.outcome = "ParseError"

\* C5 amended: parse fails with ParseError exactly when the raw line is empty
\* or whitespace-only; a pipe segment that is empty after trimming (a leading,
\* trailing or doubled pipe) is not an error: it is dropped, and a returned
\* pipeline has one stage for each non-blank segment.
C5_ParseErrorIffBlank ==
    Parsed =>
        /\ parsed.outcome = "ParseError" <=> Blank(line)
        /\ parsed.outcome = "ok" =>
              Len(parsed.commands) =
                  Cardinality({k \in 1..Len(Segments) : ~Blank(Segments[k])})

\* a line with a leading pipe, a doubled pipe or a trailing pipe, parsed to
\* the one command it holds
C5_Witness ==
    /\ Parsed
    /\ line \in {<<"|", "x">>, <<"x", "|">>, <<"x", "|", "|", "x">>, <<"x", "|", " ", "|">>}
    /\ parsed.outcome = "ok"
    /\ Len(parsed.commands) >= 1
    /\ parsed.commands[1] = ParsedCommand(<<"x">>, <<>>)

\* the number of "$" in s
DollarCount(s) == Cardinality({k \in 1..Len(s) : s[k] = "$"})

\* C6: substitution does not recurse.  For a line holding one reference, the
\* substituted line is the raw line with that reference replaced by its value,
\* the value copied as it is whatever "$" it holds.
C6_SubstitutionDoesNotRecurse ==
    (Parsed /\ DollarCount(line) = 1) => substituted = SubstituteOnce(line, 1, env)

\* the lines "$a" and "${a}" inside double quotes
QuotedReference == {<<"\"">> \o r \o <<"\"">> : r \in {RefPlain, RefBraced}}

\* C7: every ${NAME} and $NAME of the raw line is replaced by the value of
\* NAME ('' when unset), inside quotes too: a quoted reference alone on the
\* line parses to the one token that is the value.
C7_ReferencesReplacedByValue ==
    Parsed =>
        /\ ~Blank(line) => substituted = SubstituteOnce(line, 1, env)
        /\ line \in QuotedReference =>
              /\ parsed.outcome = "ok"
              /\ parsed.commands = <<ParsedCommand(GetEnv(env, VarA), <<>>)>>

----------------------------------------------------------------------------
(* The round trip `echo X | cat`, checked under SpecShell *)

\* the X of the typed line `echo X | cat`
ShellX == SubSeq(line, Len(EchoPrefix) + 1, Len(line) - Len(CatSuffix))

\* the run is over: parse raised, or execute returned or raised
ShellDone == pc \in {"rejected", "returned", "raised"}

\* s holds a reference $NAME or ${NAME}
HasReference(s) ==
    \E i \in 1..Len(s) :
        /\ s[i] = "$"
        /\ \/ WordRun(s, i + 1) > 0
           \/ /\ i + 1 <= Len(s) /\ s[i + 1] = "{"
              /\ WordRun(s, i + 2) > 0
              /\ i + 2 + WordRun(s, i + 2) <= Len(s)
              /\ s[i + 2 + WordRun(s, i + 2)] = "}"

\* no pipe, and no quote that is not escaped by a backslash
NoPipeNoBareQuote(s) ==
    \A i \in 1..Len(s) :
        /\ s[i] # "|"
        /\ s[i] \in {"'", "\""} => (i > 1 /\ s[i - 1] = "\\")

\* C8 as stated: for X with no pipe and no unescaped quote, `echo X | cat`
\* returns 0 and prints exactly X.  (Stated for X without a backslash, so that
\* what refutes it is the substitution of a reference alone.)
C8_RoundTripAsStated ==
    (/\ ShellDone
     /\ NoPipeNoBareQuote(ShellX)
     /\ \A i \in 1..Len(ShellX) : ShellX[i] # "\\")
        => pc = "returned" /\ ret = <<0>> /\ stdout = <<ShellX>>

\* the same for X without a reference: what refutes it is shlex taking a
\* backslash as an escape character
C8_BackslashAsStated ==
    (ShellDone /\ NoPipeNoBareQuote(ShellX) /\ ~HasReference(ShellX))
        => pc = "returned" /\ ret = <<0>> /\ stdout = <<ShellX>>

\* C8 amended: for X made of tokens separated by single spaces, with no pipe,
\* no quote, no backslash and no reference $NAME or ${NAME}, `echo X | cat`
\* returns 0 and prints exactly X.
C8_RoundTrip ==
    (/\ ShellDone
     /\ \A i \in 1..Len(ShellX) : ShellX[i] \notin {"|", "'", "\"", "\\"}
     /\ ~HasReference(ShellX))
        => pc = "returned" /\ ret = <<0>> /\ stdout = <<ShellX>>

\* `echo x y$ $ | cat` printed x y$ $
C8_Witness ==
    /\ pc = "returned"
    /\ ShellX = <<"x", " ", "y", "$", " ", "$">>
    /\ Len(history) = 2
    /\ history[2].stdin = Some(ShellX)
    /\ stdout = <<ShellX>>
    /\ ret = <<0>>

----------------------------------------------------------------------------
(* Claims about one behaviour, checked under SpecCmd *)

Called == pc = "called"

CalledClass == GetCommand(call.command.command_name)

\* C9: every failure of cat, wc and grep is recovered inside the behaviour:
\* no exception leaves execute, and a failure is reported as (1, None).
C9_FailuresRecovered ==
    (Called /\ CalledClass \in {"CatCommand", "WcCommand", "GrepCommand"}) =>
        /\ res.raised = "none"
        /\ res.exit_code # 0 => (res.exit_code = 1 /\ IsNone(res.output))

\* the call is `grep [-A N] pattern` on a piped text, and it returned
GrepReturned ==
    /\ Called
    /\ CalledClass = "GrepCommand"
    /\ res.raised = "none"
    /\ ~IsNone(call.stdin) /\ Val(call.stdin) # <<>>
    /\ IsNone(GrepParseArgs(call.command.args).file)

GrepLines == SplitLines(Val(call.stdin))

GrepN == GrepParseArgs(call.command.args).after_context

\* line i of the piped text matches the pattern of the call
GrepMatch(i) ==
    LET a == GrepParseArgs(call.command.args)
    IN GrepSearch(GrepBuildPattern(a.pattern, a.word, a.ignore_case), GrepLines[i])

\* line i is to be emitted: it matches, or a matching line j is at most N
\* lines before it
GrepWanted(i) ==
    \/ GrepMatch(i)
    \/ \E j \in 1..Len(GrepLines) : GrepMatch(j) /\ 0 < i - j /\ i - j <= GrepN

\* the wanted positions in input order, each once
GrepWantedSeq == SelectSeq([k \in 1..Len(GrepLines) |-> k], GrepWanted)

\* C10: grep with after-context N emits line i iff it matches or some matching
\* line j has 0 < i - j <= N, in input order and each position once; an empty
\* result is exit 0 with output None.
C10_AfterContext ==
    GrepReturned =>
        /\ res.exit_code = 0
        /\ res.output =
              IF GrepWantedSeq = <<>> THEN None
              ELSE Some(JoinWith([k \in 1..Len(GrepWantedSeq) |-> GrepLines[GrepWantedSeq[k]]],
                                 <<"\n">>))
        /\ LET a == GrepParseArgs(call.command.args)
           IN GrepEmitted(GrepLines, GrepBuildPattern(a.pattern, a.word, a.ignore_case),
                          a.after_context) = GrepWantedSeq

\* `grep -A 2 m` on m, m, x, x, x: two overlapping windows, four lines emitted
C10_Witness ==
    /\ GrepReturned
    /\ GrepN = 2
    /\ GrepLines = << <<"m">>, <<"m">>, <<"x">>, <<"x">>, <<"x">> >>
    /\ res.output = Some(<<"m", "\n", "m", "\n", "x", "\n", "x">>)

\* `grep m` on a text without m: nothing emitted, output None
C10_WitnessEmpty ==
    /\ GrepReturned
    /\ GrepLines = << <<"x">>, <<"x">> >>
    /\ res.exit_code = 0
    /\ IsNone(res.output)

----------------------------------------------------------------------------
(* Claims about the registry and the threading of outputs, checked under Spec *)

\* the names of the built-in behaviours
BuiltinNames == {CAT, ECHO, WC, PWD, EXIT, GREP}

\* C11: dispatch is a total, case-sensitive, exact-match lookup.  Every stage
\* executed was given a behaviour (the lookup never fails); the behaviour is
\* the built-in of that name exactly when the name is one of cat, echo, wc,
\* pwd, exit, grep, and the external-process fallback for every other name;
\* and it is an instance that no earlier lookup of the run returned.
C11_DispatchExactMatch ==
    \A k \in 1..Len(history) :
        LET n == history[k].command.command_name
            o == history[k].obj
        IN /\ o.cls \in {"CatCommand", "EchoCommand", "WcCommand", "PwdCommand",
                         "ExitCommand", "GrepCommand", "DefaultCommand"}
           /\ o.cls = "DefaultCommand" <=> n \notin BuiltinNames
           /\ n = CAT => o.cls = "CatCommand"
           /\ n = ECHO => o.cls = "EchoCommand"
           /\ n = WC => o.cls = "WcCommand"
           /\ n = PWD => o.cls = "PwdCommand"
           /\ n = EXIT => o.cls = "ExitCommand"
           /\ n = GREP => o.cls = "GrepCommand"
           /\ \A j \in 1..(k - 1) : history[j].obj # o

\* `cat | cat | Cat`: two distinct instances of CatCommand, and the name Cat
\* run as an external program
C11_Witness ==
    /\ Len(history) = 3
    /\ history[1].command.command_name = CAT
    /\ history[2].command.command_name = CAT
    /\ history[3].command.command_name = <<"C", "a", "t">>
    /\ history[1].obj.cls = "CatCommand"
    /\ history[2].obj.cls = "CatCommand"
    /\ history[1].obj # history[2].obj
    /\ history[3].obj.cls = "DefaultCommand"
    /\ history[3].result.raised = "none"
    /\ history[3].result.exit_code = 2

----------------------------------------------------------------------------
(* Claims about wc, checked under SpecCmd *)

\* the call is `wc` with no arguments on a piped text
WcPiped ==
    /\ Called
    /\ CalledClass = "WcCommand"
    /\ call.command.args = <<>>
    /\ ~IsNone(call.stdin)

\* the number of newline characters of s plus one
WcL(s) == Cardinality({k \in 1..Len(s) : s[k] = "\n"}) + 1

\* the number of maximal runs of non-whitespace characters of s: the
\* positions where a run starts
WcW(s) ==
    Cardinality({k \in 1..Len(s) : ~IsSpace(s[k]) /\ (k = 1 \/ IsSpace(s[k - 1]))})

\* the UTF-8 byte length of s: one byte per character, one more for each
\* two-byte character
WcB(s) == Len(s) + Cardinality({k \in 1..Len(s) : s[k] = "U"})

\* C12: wc on a piped text with no arguments returns exit 0 and `L W B`, L
\* the newline characters plus one, W the maximal runs of non-whitespace, B
\* the UTF-8 byte length; on the output of `echo line1 line2 line3` that is
\* `1 3 17`.
C12_WcCounts ==
    WcPiped =>
        LET t == Val(call.stdin) IN
        /\ res.raised = "none"
        /\ res.exit_code = 0
        /\ res.output = Some(IntToStr(WcL(t)) \o <<" ">> \o IntToStr(WcW(t))
                                \o <<" ">> \o IntToStr(WcB(t)))
        /\ call.stdin = EchoLineOutput => res.output = Some(<<"1", " ", "3", " ", "1", "7">>)

\* a text with a trailing newline and a two-byte character: `aU` and a
\* newline is 2 segments, 1 word, 4 bytes
C12_Witness ==
    /\ WcPiped
    /\ call.stdin = Some(<<"a", "U", "\n">>)
    /\ res.output = Some(<<"2", " ", "1", " ", "4">>)

\* the empty text: one phantom segment, no word, no byte
C12_WitnessEmpty ==
    /\ WcPiped
    /\ call.stdin = Some(<<>>)
    /\ res.output = Some(<<"1", " ", "0", " ", "0">>)

\* the scenario of the specification
C12_WitnessScenario ==
    /\ WcPiped
    /\ call.stdin = EchoLineOutput
    /\ Len(Val(call.stdin)) = 17
    /\ res.output = Some(<<"1", " ", "3", " ", "1", "7">>)

----------------------------------------------------------------------------
(* Claims about the threading of outputs, checked under Spec *)

\* C13: the stages are invoked in pipeline order, each at most once and with
\* its own command unchanged; the first is given stdin None and every later
\* one exactly the output the stage before it returned.
C13_OutputThreading ==
    /\ Len(history) <= Len(commands)
    /\ \A k \in 1..Len(history) :
          /\ history[k].stage = k
          /\ history[k].command = commands[k]
          /\ history[k].stdin = IF k = 1 THEN None ELSE history[k - 1].result.output

\* `cat f | cat | wc`: the text of f, with its trailing newline, reaches the
\* second and the third stage as it is
C13_Witness ==
    /\ pc = "returned"
    /\ Len(history) = 3
    /\ commands = <<ParsedCommand(CAT, <<FileF>>), ParsedCommand(CAT, <<>>),
                    ParsedCommand(WC, <<>>)>>
    /\ history[1].stdin = None
    /\ history[2].stdin = Some(<<"m", " ", "x", "\n", "x", "\n">>)
    /\ history[3].stdin = Some(<<"m", " ", "x", "\n", "x", "\n">>)
    /\ stdout = << <<"3", " ", "3", " ", "6">> >>

\* `echo m | grep z | cat`: grep matches nothing and the third stage is given
\* None, not the text of the first
C13_WitnessNone ==
    /\ Len(history) = 3
    /\ commands[1] = ParsedCommand(ECHO, << <<"m">> >>)
    /\ commands[2] = ParsedCommand(GREP, << <<"z">> >>)
    /\ history[2].stdin = Some(<<"m">>)
    /\ IsNone(history[2].result.output)
    /\ IsNone(history[3].stdin)

----------------------------------------------------------------------------
(* Claims about the real stdin, checked under Spec *)

\* C14: a stage that is not the first never reads the real process stdin,
\* whatever the stage before it returned.  (Stated for the built-in stages, so
\* that what refutes it is a sys.stdin.read() of cat, wc or grep and not what
\* an external program does with the stdin it inherits.)
C14_LaterStageNeverReadsRealStdin ==
    \A k \in 2..Len(history) :
        history[k].obj.cls # "DefaultCommand" => ~history[k].result.reads_stdin

\* the same for the external-process stages: none is started with the shell's
\* own stdin
C14_LaterExternalNeverInheritsStdin ==
    \A k \in 2..Len(history) :
        history[k].obj.cls = "DefaultCommand" => ~history[k].result.reads_stdin

----------------------------------------------------------------------------
(* Claims about the outcomes of Parser.parse, checked under SpecParse *)

\* C15: parse has two outcomes only, for every line and environment: it
\* returns a pipeline or it raises ParseError.
C15_ParseReturnsOrParseError ==
    Parsed => parsed.outcome \in {"ok", "ParseError"}

\* the same for the line `"x|"`, a balanced quoted string holding a pipe
C15_QuotedPipeAsStated ==
    (Parsed /\ line = <<"\"", "x", "|", "\"">>) => parsed.outcome \in {"ok", "ParseError"}

====
